---- MODULE Spec2Model ----
(***************************************************************************)
(* The asynchronous digital wait contract of embedded-hal                  *)
(* (src/src/futures/digital.rs): five traits, each with one operation that *)
(* takes `&'a mut self` and returns a future of `Result<(), Self::Error>`. *)
(*                                                                         *)
(* The traits declare the operations and document their behaviour; the     *)
(* bodies live in the backends.  The model is the state machine of one     *)
(* wait per pin handle as the declarations and their documentation fix it: *)
(* the operations, the pin transitions the backend detects, the poll that  *)
(* suspends the caller, the resume that hands it the outcome and the drop  *)
(* of an unfinished future.  Backend failures and the release of the armed *)
(* detection on drop are not written in the source; they are modelled from *)
(* the contract's specification.                                           *)
(***************************************************************************)
EXTENDS Naturals, FiniteSets

\* Pin handles.
Pins == {"a", "b"}

Levels == {"low", "high"}

LevelOps == {"wait_for_high", "wait_for_low"}

EdgeOps == {"wait_for_rising_edge", "wait_for_falling_edge", "wait_for_any_edge"}

Ops == LevelOps \cup EdgeOps

\* A wait that holds the handle: its future exists and was not consumed.
Outstanding == {"Armed", "Satisfied", "Failed"}

Terminal == {"Resolved", "Abandoned"}

States == Outstanding \cup Terminal

VARIABLES
    level,      \* level[p]: the logical level of the pin
    borrows,    \* borrows[p]: live `&'a mut self` borrows of the handle
    op,         \* op[p]: the operation of the current wait, "none" before the first
    state,      \* state[p]: the state of the current wait, "Idle" before the first
    outcome,    \* outcome[p]: what the caller received: "none", "Ok" or "Err"
    armed,      \* armed[p]: the backend's detection for the wait is enabled
    suspended,  \* suspended[p]: the caller was suspended by this wait
    qual,       \* qual[p]: the requested condition occurred while the wait was Armed
    fault,      \* fault[p]: a backend failure occurred during the wait
    firstEdge,  \* firstEdge[p]: the first transition after the wait was invoked
    delivered,  \* delivered[p]: outcomes handed to the caller by the current wait
    suspensions,\* suspensions[p]: times the current wait suspended its caller
    coalesced,  \* coalesced[p]: an edge wait that was already satisfied saw a
                \* further qualifying transition before it was resumed
    timer,      \* timer[p]: the delay that wait_until_ready_or_timeout races
                \* against the wait on pin p
    result,     \* result[p]: what wait_until_ready_or_timeout returned
    polled      \* polled[p]: the running poll of select_biased! found the
                \* wait pending and has the delay left to poll

\* A pin and its wait.
basevars == <<level, borrows, op, state, outcome, armed, suspended, qual, fault,
              firstEdge, delivered, suspensions, coalesced>>

\* A call of wait_until_ready_or_timeout.
tvars == <<timer, result, polled>>

vars == <<basevars, tvars>>

\* The level a level-wait asks for.
Requested(o) == IF o = "wait_for_high" THEN "high" ELSE "low"

\* The direction of a transition from level old to level new.
Direction(old, new) ==
    IF old = "low" /\ new = "high" THEN "rising"
    ELSE IF old = "high" /\ new = "low" THEN "falling"
    ELSE "none"

\* Mutant of Qualifies: wait_for_any_edge only sees rising transitions.
QualifiesAnyEdgeRisingOnly(o, old, new) ==
    CASE o = "wait_for_high" -> new = "high"
      [] o = "wait_for_low" -> new = "low"
      [] o = "wait_for_rising_edge" -> Direction(old, new) = "rising"
      [] o = "wait_for_falling_edge" -> Direction(old, new) = "falling"
      [] o = "wait_for_any_edge" -> Direction(old, new) = "rising"
      [] OTHER -> FALSE

\* Whether the transition old -> new is what operation o waits for.
Qualifies(o, old, new) ==
    CASE o = "wait_for_high" -> new = "high"
      [] o = "wait_for_low" -> new = "low"
      [] o = "wait_for_rising_edge" -> Direction(old, new) = "rising"
      [] o = "wait_for_falling_edge" -> Direction(old, new) = "falling"
      [] o = "wait_for_any_edge" -> Direction(old, new) # "none"
      [] OTHER -> FALSE

\* The other level.
Toggle(lv) == IF lv = "high" THEN "low" ELSE "high"

\* Mutant of Available: the handle is handed out while a future borrows it.
AvailableAlways(p) == TRUE

\* Mutant of Available: one wait at a time over all pins, as with a single
\* waker slot shared by the handles.
AvailableOnlyIfAllFree(p) == \A q \in Pins : borrows[q] = 0

\* `&'a mut self`: the handle can be borrowed when no future borrows it.
Available(p) == borrows[p] = 0

\* Mutant of AlreadySatisfied: the current level is not looked at, every
\* wait is left to the next event.
NeverAlreadySatisfied(o, lv) == FALSE

\* "If the pin is already high (low), the future resolves immediately."
AlreadySatisfied(o, lv) == o \in LevelOps /\ lv = Requested(o)

\* Mutant of Detects: detection only works once the caller is suspended.
DetectsOnlyWhenSuspended(p, old, new) ==
    armed[p] /\ suspended[p] /\ Qualifies(op[p], old, new)

\* Mutant of Detects: the detection fires without looking at its enable.
DetectsWhenDisarmed(p, old, new) == Qualifies(op[p], old, new)

\* The backend's armed detection of pin p sees the transition old -> new.
Detects(p, old, new) == armed[p] /\ Qualifies(op[p], old, new)

\* Mutant of Deliver: the error is swallowed.
DeliverOkAlways(s) == "Ok"

\* Output = Result<(), Self::Error>: what a finished wait hands to the caller.
Deliver(s) == IF s = "Satisfied" THEN "Ok" ELSE "Err"

Init ==
    /\ level \in [Pins -> Levels]
    /\ borrows = [p \in Pins |-> 0]
    /\ op = [p \in Pins |-> "none"]
    /\ state = [p \in Pins |-> "Idle"]
    /\ outcome = [p \in Pins |-> "none"]
    /\ armed = [p \in Pins |-> FALSE]
    /\ suspended = [p \in Pins |-> FALSE]
    /\ qual = [p \in Pins |-> FALSE]
    /\ fault = [p \in Pins |-> FALSE]
    /\ firstEdge = [p \in Pins |-> "none"]
    /\ delivered = [p \in Pins |-> 0]
    /\ suspensions = [p \in Pins |-> 0]
    /\ coalesced = [p \in Pins |-> FALSE]
    /\ timer = [p \in Pins |-> "idle"]
    /\ result = [p \in Pins |-> "none"]
    /\ polled = [p \in Pins |-> FALSE]

\* An operation returns its future: the handle is borrowed and detection is
\* armed for the requested condition, unless sat says it already holds.
RegisterWait(p, o, sat) ==
    /\ Available(p)
    /\ borrows' = [borrows EXCEPT ![p] = @ + 1]
    /\ op' = [op EXCEPT ![p] = o]
    /\ state' = [state EXCEPT ![p] = IF sat THEN "Satisfied" ELSE "Armed"]
    /\ outcome' = [outcome EXCEPT ![p] = "none"]
    /\ armed' = [armed EXCEPT ![p] = ~sat]
    /\ suspended' = [suspended EXCEPT ![p] = FALSE]
    /\ qual' = [qual EXCEPT ![p] = o \in LevelOps /\ level[p] = Requested(o)]
    /\ fault' = [fault EXCEPT ![p] = FALSE]
    /\ firstEdge' = [firstEdge EXCEPT ![p] = "none"]
    /\ delivered' = [delivered EXCEPT ![p] = 0]
    /\ suspensions' = [suspensions EXCEPT ![p] = 0]
    /\ coalesced' = [coalesced EXCEPT ![p] = FALSE]
    /\ UNCHANGED level

\* One of the five operations, invoked by a caller that awaits it itself.
Register(p, o, sat) == RegisterWait(p, o, sat) /\ UNCHANGED tvars

wait_for_high(p) ==
    Register(p, "wait_for_high", AlreadySatisfied("wait_for_high", level[p]))

wait_for_low(p) ==
    Register(p, "wait_for_low", AlreadySatisfied("wait_for_low", level[p]))

\* Mutant of wait_for_rising_edge: a pin that is high counts as a rising edge.
wait_for_rising_edge_shortcut(p) ==
    Register(p, "wait_for_rising_edge", level[p] = "high")

wait_for_rising_edge(p) ==
    Register(p, "wait_for_rising_edge", FALSE)

wait_for_falling_edge(p) ==
    Register(p, "wait_for_falling_edge", FALSE)

wait_for_any_edge(p) ==
    Register(p, "wait_for_any_edge", FALSE)

\* The pin changes level; an armed detection that sees what it waits for
\* fires once, marks the wait satisfied and disarms.
PinChange(p) ==
    LET old == level[p]
        new == Toggle(level[p])
        hit == Detects(p, old, new)
    IN  /\ level' = [level EXCEPT ![p] = new]
        /\ state' = [state EXCEPT ![p] = IF hit THEN "Satisfied" ELSE @]
        /\ armed' = [armed EXCEPT ![p] = IF hit THEN FALSE ELSE @]
        /\ qual' = [qual EXCEPT ![p] =
                        @ \/ (state[p] = "Armed" /\ Qualifies(op[p], old, new))]
        /\ firstEdge' = [firstEdge EXCEPT ![p] =
                        IF state[p] \in States /\ @ = "none"
                        THEN Direction(old, new) ELSE @]
        /\ coalesced' = [coalesced EXCEPT ![p] =
                        @ \/ (state[p] = "Satisfied" /\ op[p] \in EdgeOps
                              /\ Qualifies(op[p], old, new))]
        /\ UNCHANGED <<borrows, op, outcome, suspended, fault, delivered,
                       suspensions>>
        /\ UNCHANGED tvars

\* The backend fails to sense the pin; an armed detection reports the failure.
BackendFail(p) ==
    /\ state' = [state EXCEPT ![p] = IF armed[p] THEN "Failed" ELSE @]
    /\ armed' = [armed EXCEPT ![p] = FALSE]
    /\ fault' = [fault EXCEPT ![p] = @ \/ state[p] \in Outstanding]
    /\ UNCHANGED <<level, borrows, op, outcome, suspended, qual, firstEdge,
                   delivered, suspensions, coalesced>>
    /\ UNCHANGED tvars

\* Mutant of Suspend: a condition that is not met yet is reported as an error.
SuspendAsError(p) ==
    /\ state[p] = "Armed"
    /\ ~suspended[p]
    /\ suspended' = [suspended EXCEPT ![p] = TRUE]
    /\ state' = [state EXCEPT ![p] = "Failed"]
    /\ armed' = [armed EXCEPT ![p] = FALSE]
    /\ suspensions' = [suspensions EXCEPT ![p] = @ + 1]
    /\ UNCHANGED <<level, borrows, op, outcome, qual, fault, firstEdge,
                   delivered, coalesced>>
    /\ UNCHANGED tvars

\* Mutant of Suspend: the caller is woken without an outcome and suspends
\* again on the same wait.
SuspendRepeatedly(p) ==
    /\ state[p] = "Armed"
    /\ suspended' = [suspended EXCEPT ![p] = TRUE]
    /\ suspensions' = [suspensions EXCEPT ![p] = @ + 1]
    /\ UNCHANGED <<level, borrows, op, state, outcome, armed, qual, fault,
                   firstEdge, delivered, coalesced>>
    /\ UNCHANGED tvars

\* The caller awaits a wait whose condition is not met yet: it is suspended.
SuspendWait(p) ==
    /\ state[p] = "Armed"
    /\ ~suspended[p]
    /\ suspended' = [suspended EXCEPT ![p] = TRUE]
    /\ suspensions' = [suspensions EXCEPT ![p] = @ + 1]
    /\ UNCHANGED <<level, borrows, op, state, outcome, armed, qual, fault,
                   firstEdge, delivered, coalesced>>

Suspend(p) == SuspendWait(p) /\ UNCHANGED tvars

\* Mutant of Resume: the level is read again when the caller runs, and a
\* level-wait whose pin has reverted goes back to waiting.
ResumeRecheck(p) ==
    /\ state[p] \in {"Satisfied", "Failed"}
    /\ IF state[p] = "Satisfied" /\ op[p] \in LevelOps
          /\ level[p] # Requested(op[p])
       THEN /\ state' = [state EXCEPT ![p] = "Armed"]
            /\ armed' = [armed EXCEPT ![p] = TRUE]
            /\ UNCHANGED <<outcome, borrows, delivered>>
       ELSE /\ state' = [state EXCEPT ![p] = "Resolved"]
            /\ outcome' = [outcome EXCEPT ![p] = Deliver(state[p])]
            /\ borrows' = [borrows EXCEPT ![p] = @ - 1]
            /\ armed' = [armed EXCEPT ![p] = FALSE]
            /\ delivered' = [delivered EXCEPT ![p] = @ + 1]
    /\ UNCHANGED <<level, op, suspended, qual, fault, firstEdge, suspensions,
                   coalesced>>
    /\ UNCHANGED tvars

\* Mutant of Resume: a wake-up only reaches a caller that was suspended; a
\* wait that finished before its caller awaited it is never resumed.
ResumeOnlyIfSuspended(p) ==
    /\ state[p] \in {"Satisfied", "Failed"}
    /\ suspended[p]
    /\ state' = [state EXCEPT ![p] = "Resolved"]
    /\ outcome' = [outcome EXCEPT ![p] = Deliver(state[p])]
    /\ borrows' = [borrows EXCEPT ![p] = @ - 1]
    /\ armed' = [armed EXCEPT ![p] = FALSE]
    /\ delivered' = [delivered EXCEPT ![p] = @ + 1]
    /\ UNCHANGED <<level, op, suspended, qual, fault, firstEdge, suspensions,
                   coalesced>>
    /\ UNCHANGED tvars

\* Mutant of Resume: a wake-up that was pending when the future was dropped
\* is still delivered.
ResumeAlsoAbandoned(p) ==
    /\ state[p] \in {"Satisfied", "Failed"} \/ (state[p] = "Abandoned" /\ qual[p])
    /\ state' = [state EXCEPT ![p] = "Resolved"]
    /\ outcome' = [outcome EXCEPT ![p] =
                        IF state[p] = "Failed" THEN "Err" ELSE "Ok"]
    /\ borrows' = [borrows EXCEPT ![p] = IF @ > 0 THEN @ - 1 ELSE @]
    /\ armed' = [armed EXCEPT ![p] = FALSE]
    /\ delivered' = [delivered EXCEPT ![p] = @ + 1]
    /\ UNCHANGED <<level, op, suspended, qual, fault, firstEdge, suspensions,
                   coalesced>>
    /\ UNCHANGED tvars

\* Mutant of Resume: every qualifying transition is delivered on its own; a
\* wait that saw a second one stays ready after its outcome was taken.
ResumeKeepsPending(p) ==
    /\ state[p] \in {"Satisfied", "Failed"}
    /\ state' = [state EXCEPT ![p] =
                        IF coalesced[p] /\ delivered[p] = 0
                        THEN "Satisfied" ELSE "Resolved"]
    /\ outcome' = [outcome EXCEPT ![p] = Deliver(state[p])]
    /\ borrows' = [borrows EXCEPT ![p] =
                        IF coalesced[p] /\ delivered[p] = 0 THEN @ ELSE @ - 1]
    /\ armed' = [armed EXCEPT ![p] = FALSE]
    /\ delivered' = [delivered EXCEPT ![p] = @ + 1]
    /\ UNCHANGED <<level, op, suspended, qual, fault, firstEdge, suspensions,
                   coalesced>>
    /\ UNCHANGED tvars

\* The scheduler runs the caller of a finished wait: the future resolves, the
\* caller consumes the outcome and the borrow of the handle ends.  The level
\* of the pin is not read again.
ResumeWait(p) ==
    /\ state[p] \in {"Satisfied", "Failed"}
    /\ state' = [state EXCEPT ![p] = "Resolved"]
    /\ outcome' = [outcome EXCEPT ![p] = Deliver(state[p])]
    /\ borrows' = [borrows EXCEPT ![p] = @ - 1]
    /\ armed' = [armed EXCEPT ![p] = FALSE]
    /\ delivered' = [delivered EXCEPT ![p] = @ + 1]
    /\ UNCHANGED <<level, op, suspended, qual, fault, firstEdge, suspensions,
                   coalesced>>

Resume(p) == ResumeWait(p) /\ UNCHANGED tvars

\* Mutant of ReleaseDetection: the detection stays enabled.
ReleaseNothing(p) == UNCHANGED armed

\* The armed detection of the wait on pin p (an interrupt enable) is released.
ReleaseDetection(p) == armed' = [armed EXCEPT ![p] = FALSE]

\* Mutant of Abandon: the dropped future keeps its borrow of the handle.
AbandonKeepBorrow(p) ==
    /\ state[p] \in Outstanding
    /\ state' = [state EXCEPT ![p] = "Abandoned"]
    /\ ReleaseDetection(p)
    /\ UNCHANGED <<level, borrows, op, outcome, suspended, qual, fault,
                   firstEdge, delivered, suspensions, coalesced>>
    /\ UNCHANGED tvars

\* The caller drops a future that it has not consumed: detection is released
\* and the borrow of the handle ends; nothing is delivered.
AbandonWait(p) ==
    /\ state[p] \in Outstanding
    /\ state' = [state EXCEPT ![p] = "Abandoned"]
    /\ ReleaseDetection(p)
    /\ borrows' = [borrows EXCEPT ![p] = @ - 1]
    /\ UNCHANGED <<level, op, outcome, suspended, qual, fault, firstEdge,
                   delivered, suspensions, coalesced>>

Abandon(p) == AbandonWait(p) /\ UNCHANGED tvars

\* wait_until_ready_or_timeout is running on pin p: its select_biased! has
\* not finished.
Racing(p) == timer[p] \in {"running", "elapsed"}

\* wait_until_ready_or_timeout(ready_pin, delay) is called: select_biased!
\* creates the wait_for_high future and the delay future.  A call that
\* panicked has ended its task.
wait_until_ready_or_timeout(p) ==
    /\ ~Racing(p)
    /\ result[p] # "panic"
    /\ RegisterWait(p, "wait_for_high", AlreadySatisfied("wait_for_high", level[p]))
    /\ timer' = [timer EXCEPT ![p] = "running"]
    /\ result' = [result EXCEPT ![p] = "none"]
    /\ polled' = [polled EXCEPT ![p] = FALSE]

\* The millisecond of the delay passes.
DelayElapse(p) ==
    /\ timer[p] = "running"
    /\ timer' = [timer EXCEPT ![p] = "elapsed"]
    /\ UNCHANGED <<basevars, result, polled>>

\* Mutant of SelectPollPin: the delay is looked at first, so that it wins
\* when both futures are ready.
SelectPollPinDelayFirst(p) ==
    /\ Racing(p)
    /\ ~polled[p]
    /\ IF timer[p] = "elapsed"
       THEN /\ AbandonWait(p)
            /\ result' = [result EXCEPT ![p] = "false"]
            /\ timer' = [timer EXCEPT ![p] = "consumed"]
            /\ UNCHANGED polled
       ELSE IF state[p] \in {"Satisfied", "Failed"}
       THEN /\ ResumeWait(p)
            /\ result' = [result EXCEPT ![p] =
                            IF state[p] = "Satisfied" THEN "true" ELSE "panic"]
            /\ timer' = [timer EXCEPT ![p] = "dropped"]
            /\ UNCHANGED polled
       ELSE /\ polled' = [polled EXCEPT ![p] = TRUE]
            /\ UNCHANGED <<basevars, timer, result>>

\* select_biased! polls its first branch, the wait.  A finished wait is
\* consumed: x.expect(..) panics on the error and the branch returns true
\* otherwise; the delay is dropped.  A pending wait leaves the delay to poll.
SelectPollPin(p) ==
    /\ Racing(p)
    /\ ~polled[p]
    /\ IF state[p] \in {"Satisfied", "Failed"}
       THEN /\ ResumeWait(p)
            /\ result' = [result EXCEPT ![p] =
                            IF state[p] = "Satisfied" THEN "true" ELSE "panic"]
            /\ timer' = [timer EXCEPT ![p] = "dropped"]
            /\ UNCHANGED polled
       ELSE /\ polled' = [polled EXCEPT ![p] = TRUE]
            /\ UNCHANGED <<basevars, timer, result>>

\* select_biased! polls its second branch, the delay.  An elapsed delay is
\* consumed, the branch returns false and the wait is dropped in whatever
\* state it is by now.  With both pending the caller is suspended until one
\* of them wakes it.
SelectPollDelay(p) ==
    /\ Racing(p)
    /\ polled[p]
    /\ polled' = [polled EXCEPT ![p] = FALSE]
    /\ IF timer[p] = "elapsed"
       THEN /\ AbandonWait(p)
            /\ result' = [result EXCEPT ![p] = "false"]
            /\ timer' = [timer EXCEPT ![p] = "consumed"]
       ELSE /\ IF state[p] = "Armed" /\ ~suspended[p]
               THEN SuspendWait(p)
               ELSE UNCHANGED basevars
            /\ UNCHANGED <<timer, result>>

Next ==
    \E p \in Pins :
        \/ wait_for_high(p)
        \/ wait_for_low(p)
        \/ wait_for_rising_edge(p)
        \/ wait_for_falling_edge(p)
        \/ wait_for_any_edge(p)
        \/ PinChange(p)
        \/ BackendFail(p)
        \/ Suspend(p)
        \/ Resume(p)
        \/ Abandon(p)

Spec == Init /\ [][Next]_vars

\* A scheduler that runs every task that stays ready: a finished wait whose
\* caller keeps it is eventually resumed.
FairSpec == Spec /\ \A p \in Pins : WF_vars(Resume(p))

\* The pins are only used through wait_until_ready_or_timeout.
TimeoutNext ==
    \E p \in Pins :
        \/ wait_until_ready_or_timeout(p)
        \/ DelayElapse(p)
        \/ SelectPollPin(p)
        \/ SelectPollDelay(p)
        \/ PinChange(p)
        \/ BackendFail(p)

TimeoutSpec == Init /\ [][TimeoutNext]_vars

TypeOK ==
    /\ level \in [Pins -> Levels]
    /\ borrows \in [Pins -> {0, 1}]
    /\ op \in [Pins -> Ops \cup {"none"}]
    /\ state \in [Pins -> States \cup {"Idle"}]
    /\ outcome \in [Pins -> {"none", "Ok", "Err"}]
    /\ armed \in [Pins -> BOOLEAN]
    /\ suspended \in [Pins -> BOOLEAN]
    /\ qual \in [Pins -> BOOLEAN]
    /\ fault \in [Pins -> BOOLEAN]
    /\ firstEdge \in [Pins -> {"none", "rising", "falling"}]
    /\ delivered \in [Pins -> {0, 1}]
    /\ suspensions \in [Pins -> {0, 1}]
    /\ coalesced \in [Pins -> BOOLEAN]
    /\ timer \in [Pins -> {"idle", "running", "elapsed", "consumed", "dropped"}]
    /\ result \in [Pins -> {"none", "true", "false", "panic"}]
    /\ polled \in [Pins -> BOOLEAN]

\* The five operations can all be invoked on pin p.
CanInvoke(p) ==
    /\ ENABLED wait_for_high(p)
    /\ ENABLED wait_for_low(p)
    /\ ENABLED wait_for_rising_edge(p)
    /\ ENABLED wait_for_falling_edge(p)
    /\ ENABLED wait_for_any_edge(p)

\* None of the five operations can be invoked on pin p.
CannotInvoke(p) ==
    /\ ~ENABLED wait_for_high(p)
    /\ ~ENABLED wait_for_low(p)
    /\ ~ENABLED wait_for_rising_edge(p)
    /\ ~ENABLED wait_for_falling_edge(p)
    /\ ~ENABLED wait_for_any_edge(p)

\* The wait on pin p resolved with success.
ResolvedOk(p) == state[p] = "Resolved" /\ outcome[p] = "Ok"

\* The wait on pin p resolved with the error.
ResolvedErr(p) == state[p] = "Resolved" /\ outcome[p] = "Err"

(***************************************************************************)
(* C1 - late-check safety.  A level-wait (wait_for_high, wait_for_low)     *)
(* whose requested level was detected stays satisfied whatever the pin     *)
(* does afterwards: its only steps are the resume, which delivers success, *)
(* and the caller's drop of the future; it never goes back to waiting and  *)
(* never fails.  Under a scheduler that runs ready tasks, a satisfied      *)
(* level-wait that the caller keeps is resolved with success.              *)
(***************************************************************************)
LateCheckSafety ==
    /\ [][\A p \in Pins :
            (state[p] = "Satisfied" /\ op[p] \in LevelOps) =>
                \/ state'[p] = "Satisfied" /\ outcome'[p] = "none"
                \/ state'[p] = "Resolved" /\ outcome'[p] = "Ok"
                \/ state'[p] = "Abandoned"]_vars
    /\ \A p \in Pins :
            (state[p] = "Satisfied" /\ op[p] \in LevelOps)
                ~> (ResolvedOk(p) \/ state[p] = "Abandoned")

\* C1's case: a wait_for_high and a wait_for_low both resolved with success
\* although each pin had reverted to the opposite level by then.
LateCheckWitness ==
    \E p, q \in Pins :
        /\ op[p] = "wait_for_high" /\ ResolvedOk(p) /\ level[p] = "low"
        /\ firstEdge[p] = "rising"
        /\ op[q] = "wait_for_low" /\ ResolvedOk(q) /\ level[q] = "high"
        /\ firstEdge[q] = "falling"

(***************************************************************************)
(* C2 - immediate completion.  A level-wait invoked while the pin is at    *)
(* the requested level, with no transition since, is satisfied from the    *)
(* start: it never suspends the caller, the resume is enabled without any  *)
(* pin transition, and what the resume delivers is success.                *)
(***************************************************************************)
ImmediateCompletion ==
    \A p \in Pins :
        (op[p] \in LevelOps /\ firstEdge[p] = "none"
         /\ level[p] = Requested(op[p])) =>
            /\ state[p] \in {"Satisfied", "Resolved", "Abandoned"}
            /\ ~suspended[p]
            /\ state[p] = "Satisfied" => ENABLED Resume(p)
            /\ state[p] = "Resolved" => outcome[p] = "Ok"

\* C2's case: a wait_for_high on a high pin and a wait_for_low on a low pin
\* resolved with success without a transition and without a suspension.
ImmediateCompletionWitness ==
    \E p, q \in Pins :
        /\ op[p] = "wait_for_high" /\ level[p] = "high"
        /\ firstEdge[p] = "none" /\ ResolvedOk(p) /\ ~suspended[p]
        /\ op[q] = "wait_for_low" /\ level[q] = "low"
        /\ firstEdge[q] = "none" /\ ResolvedOk(q) /\ ~suspended[q]

(***************************************************************************)
(* C3 - no missed transition.  For each of the five operations, once the   *)
(* requested condition occurred while the wait was armed (from the         *)
(* invocation on, also before the caller was first suspended), the wait is *)
(* not waiting any more and has not failed: it is satisfied, resolved with *)
(* success, or dropped by the caller.                                      *)
(***************************************************************************)
NoMissedTransition ==
    \A p \in Pins :
        qual[p] =>
            /\ state[p] \in {"Satisfied", "Resolved", "Abandoned"}
            /\ state[p] = "Resolved" => outcome[p] = "Ok"

\* C3's case: the pin was low when wait_for_high was invoked, went high and
\* low again before the caller was ever suspended, and the wait resolved
\* with success.
NoMissedTransitionWitness ==
    \E p \in Pins :
        /\ op[p] = "wait_for_high" /\ firstEdge[p] = "rising"
        /\ level[p] = "low" /\ ~suspended[p] /\ ResolvedOk(p)

(***************************************************************************)
(* C4 - no shortcut on edges.  An edge wait is satisfied or resolved with  *)
(* success only if a qualifying transition occurred after it was           *)
(* registered; without one (and without a backend failure or a drop) it    *)
(* is still waiting.  In particular with no transition at all since the    *)
(* invocation it is neither satisfied nor resolved with success, whatever  *)
(* the level of the pin.                                                   *)
(***************************************************************************)
NoShortcutOnEdges ==
    \A p \in Pins :
        op[p] \in EdgeOps =>
            /\ (state[p] = "Satisfied" \/ outcome[p] = "Ok") => qual[p]
            /\ qual[p] => firstEdge[p] # "none"
            /\ (~qual[p] /\ ~fault[p] /\ state[p] # "Abandoned") =>
                    state[p] = "Armed"

\* C4's case: wait_for_rising_edge on a pin that is high and stayed high is
\* still waiting after the caller was suspended, and a wait_for_falling_edge
\* that saw only a rising transition is still waiting too.
NoShortcutOnEdgesWitness ==
    \E p, q \in Pins :
        /\ op[p] = "wait_for_rising_edge" /\ level[p] = "high"
        /\ firstEdge[p] = "none" /\ state[p] = "Armed" /\ suspended[p]
        /\ op[q] = "wait_for_falling_edge" /\ firstEdge[q] = "rising"
        /\ level[q] = "high" /\ state[q] = "Armed"

FreshWait(p) ==
    /\ borrows[p] = 1
    /\ outcome[p] = "none"
    /\ ~suspended[p] /\ ~fault[p] /\ firstEdge[p] = "none"
    /\ state[p] = IF op[p] \in LevelOps /\ level[p] = Requested(op[p])
                  THEN "Satisfied" ELSE "Armed"
    /\ armed[p] = (state[p] = "Armed")
    /\ qual[p] = (state[p] = "Satisfied")

(***************************************************************************)
(* C6 - clean abandonment.  After a wait is dropped its detection is       *)
(* released and the handle is free: each of the five operations can be     *)
(* invoked at once.  A wait invoked on the handle of a dropped wait starts *)
(* in the state a wait starts in on a handle that never had one, and a     *)
(* wait is only ever satisfied by a condition, or failed by a failure,     *)
(* that occurred during that wait.                                         *)
(***************************************************************************)
CleanAbandonment ==
    /\ [](\A p \in Pins :
            /\ state[p] = "Abandoned" =>
                    ~armed[p] /\ borrows[p] = 0 /\ CanInvoke(p)
            /\ state[p] = "Satisfied" => qual[p]
            /\ state[p] = "Failed" => fault[p])
    /\ [][\A p \in Pins :
            (state[p] \in {"Idle", "Abandoned"} /\ borrows'[p] > borrows[p])
                => FreshWait(p)']_vars

\* C6's case: a wait was dropped after its condition had been detected and
\* its caller suspended; the handle is free for each of the operations.
CleanAbandonmentWitness ==
    \E p \in Pins :
        /\ state[p] = "Abandoned" /\ qual[p] /\ suspended[p]
        /\ borrows[p] = 0 /\ CanInvoke(p)

(***************************************************************************)
(* C7 - error passthrough.  For each of the five operations a backend      *)
(* failure during an Armed wait makes it Failed.  A Failed wait is not     *)
(* re-armed or retried: it stays Failed with its resume enabled, and its   *)
(* only steps are the resume, which delivers the error and never success,  *)
(* and the caller's drop of the future.                                    *)
(***************************************************************************)
ErrorPassthrough ==
    /\ [](\A p \in Pins :
            state[p] = "Failed" =>
                ~armed[p] /\ outcome[p] = "none" /\ ENABLED Resume(p))
    /\ [][\A p \in Pins :
            /\ (state[p] = "Armed" /\ ~fault[p] /\ fault'[p]) =>
                    state'[p] = "Failed"
            /\ state[p] = "Failed" =>
                    \/ state'[p] = "Failed"
                    \/ state'[p] = "Resolved" /\ outcome'[p] = "Err"
                    \/ state'[p] = "Abandoned" /\ outcome'[p] = "none"]_vars

\* C7's case: a level-wait and an edge wait both resolved with the error
\* after a backend failure.
ErrorPassthroughWitness ==
    \E p, q \in Pins :
        /\ op[p] \in LevelOps /\ ResolvedErr(p) /\ fault[p]
        /\ op[q] \in EdgeOps /\ ResolvedErr(q) /\ fault[q]

(***************************************************************************)
(* C8 - errors only on backend failure.  A wait is Failed or has delivered *)
(* the error only if a backend failure occurred during that wait.  A wait  *)
(* whose condition is not met (Armed) and a dropped wait have delivered    *)
(* nothing; an outcome is only ever delivered by resolving.                *)
(***************************************************************************)
ErrorsOnlyOnBackendFailure ==
    \A p \in Pins :
        /\ (state[p] = "Failed" \/ outcome[p] = "Err") => fault[p]
        /\ outcome[p] # "none" => state[p] = "Resolved"
        /\ state[p] \in {"Armed", "Abandoned"} => outcome[p] = "none"

\* C8's case: one wait resolved with the error after a failure, while
\* another whose condition is not met, after a transition that did not
\* qualify, keeps its caller suspended with no outcome and no failure.
ErrorsOnlyOnBackendFailureWitness ==
    \E p, q \in Pins :
        /\ ResolvedErr(p) /\ fault[p]
        /\ state[q] = "Armed" /\ suspended[q] /\ firstEdge[q] # "none"
        /\ ~fault[q] /\ outcome[q] = "none"

(***************************************************************************)
(* C9 - any-edge symmetry.  A wait_for_any_edge that saw a transition      *)
(* after it was registered, rising or falling, and no backend failure, is  *)
(* not waiting any more, and when it resolves the outcome is the success   *)
(* value, which is the same value for both directions.                     *)
(***************************************************************************)
AnyEdgeSymmetry ==
    \A p \in Pins :
        (op[p] = "wait_for_any_edge" /\ firstEdge[p] # "none" /\ ~fault[p]) =>
            /\ state[p] \in {"Satisfied", "Resolved", "Abandoned"}
            /\ state[p] = "Resolved" => outcome[p] = "Ok"

\* C9's case: two wait_for_any_edge waits resolved, one after a rising and
\* one after a falling first transition, with equal outcomes.
AnyEdgeSymmetryWitness ==
    \E p, q \in Pins :
        /\ op[p] = "wait_for_any_edge" /\ firstEdge[p] = "rising"
        /\ op[q] = "wait_for_any_edge" /\ firstEdge[q] = "falling"
        /\ state[p] = "Resolved" /\ state[q] = "Resolved"
        /\ outcome[p] = "Ok" /\ outcome[p] = outcome[q]

(***************************************************************************)
(* C10 - abandoned waits stay silent.  A dropped wait has delivered        *)
(* nothing, its detection is not armed and it cannot be resumed; until a   *)
(* new wait is invoked on the handle, no pin transition or backend failure *)
(* changes its state, delivers an outcome or arms its detection again.     *)
(***************************************************************************)
AbandonedStaySilent ==
    /\ [](\A p \in Pins :
            state[p] = "Abandoned" =>
                outcome[p] = "none" /\ ~armed[p] /\ ~ENABLED Resume(p))
    /\ [][\A p \in Pins :
            (state[p] = "Abandoned" /\ borrows'[p] = borrows[p]) =>
                /\ state'[p] = "Abandoned"
                /\ outcome'[p] = "none"
                /\ ~armed'[p]]_vars

\* C10's case: a wait_for_rising_edge was dropped while waiting and the
\* rising edge came afterwards; nothing was delivered.
AbandonedStaySilentWitness ==
    \E p \in Pins :
        /\ op[p] = "wait_for_rising_edge" /\ state[p] = "Abandoned"
        /\ ~qual[p] /\ ~fault[p] /\ firstEdge[p] = "rising"
        /\ level[p] = "high" /\ outcome[p] = "none"

(***************************************************************************)
(* C12 - eventual resolution.  A wait that is outstanding after its        *)
(* condition was met (the requested level held or the qualifying           *)
(* transition occurred while it was Armed) or after a backend failure is   *)
(* finished, with its resume enabled; under a scheduler that runs ready    *)
(* tasks it is resolved, unless the caller drops it.                       *)
(***************************************************************************)
EventualResolution ==
    /\ [](\A p \in Pins :
            (state[p] \in Outstanding /\ (qual[p] \/ fault[p])) =>
                state[p] \in {"Satisfied", "Failed"} /\ ENABLED Resume(p))
    /\ \A p \in Pins :
            (state[p] \in Outstanding /\ (qual[p] \/ fault[p]))
                ~> (state[p] \in Terminal)

\* C12's case: an edge wait resolved with success after its transition
\* and a level-wait resolved with the error after a backend failure, both
\* after their callers had been suspended.
EventualResolutionWitness ==
    \E p, q \in Pins :
        /\ op[p] \in EdgeOps /\ ResolvedOk(p) /\ qual[p] /\ suspended[p]
        /\ op[q] \in LevelOps /\ ResolvedErr(q) /\ fault[q] /\ suspended[q]

\* The transitions of a wait instance that the contract's state model lists.
ListedTransitions ==
    { <<"Armed", "Satisfied">>, <<"Armed", "Failed">>,
      <<"Satisfied", "Resolved">>, <<"Failed", "Resolved">>,
      <<"Armed", "Abandoned">>, <<"Satisfied", "Abandoned">> }

\* A step invokes a new wait on pin p.
NewWait(p) == borrows'[p] > borrows[p]

\* A new wait on pin p starts Armed; a level-wait invoked at its requested
\* level takes Armed -> Satisfied within the invocation.
StartsArmed(p) ==
    \/ state'[p] = "Armed"
    \/ /\ state'[p] = "Satisfied"
       /\ op'[p] \in LevelOps /\ level[p] = Requested(op'[p])

\* Every step starts a new wait on pin p or moves its wait along one of the
\* transitions in T.
FollowsStateModel(T) ==
    \A p \in Pins :
        IF NewWait(p)
        THEN StartsArmed(p)
        ELSE state'[p] = state[p] \/ <<state[p], state'[p]>> \in T

(***************************************************************************)
(* C13 as stated - every wait instance starts Armed and only takes the six *)
(* listed transitions; Resolved and Abandoned are terminal and no instance *)
(* returns to Armed.                                                       *)
(***************************************************************************)
StateModelAsStated == [][FollowsStateModel(ListedTransitions)]_vars

(***************************************************************************)
(* C13 amended - every wait instance starts Armed and only takes the six   *)
(* listed transitions or Failed -> Abandoned (the caller drops a future    *)
(* whose failure it has not consumed); Resolved and Abandoned are terminal *)
(* and no instance returns to Armed.                                       *)
(***************************************************************************)
StateModel ==
    [][FollowsStateModel(ListedTransitions \cup {<<"Failed", "Abandoned">>})]_vars

\* C13's case: a wait failed while Armed and was dropped before its caller
\* consumed the error.
StateModelWitness ==
    \E p \in Pins :
        state[p] = "Abandoned" /\ fault[p] /\ ~qual[p] /\ outcome[p] = "none"

\* Everything the model holds about pin p and its wait.
PinState(p) ==
    <<level[p], borrows[p], op[p], state[p], outcome[p], armed[p],
      suspended[p], qual[p], fault[p], firstEdge[p], delivered[p],
      suspensions[p], coalesced[p], timer[p], result[p], polled[p]>>

(***************************************************************************)
(* C17 - pin independence.  A step that changes anything of one pin (a     *)
(* transition, a backend failure, an invocation, a suspension, a resume or *)
(* a drop) leaves the level, the wait and the outcome of every other pin   *)
(* as they were, and a handle that is not borrowed accepts each of the     *)
(* five operations whatever is outstanding on the other handles.           *)
(***************************************************************************)
PinIndependence ==
    /\ [](\A p \in Pins : borrows[p] = 0 => CanInvoke(p))
    /\ [][\A p, q \in Pins :
            (p # q /\ PinState(p)' # PinState(p)) =>
                PinState(q)' = PinState(q)]_vars

\* C17's case: a wait on one pin is still Armed and untouched, its caller
\* suspended, while the other pin saw a transition, a failure and a drop
\* and is free for a new wait.
PinIndependenceWitness ==
    \E p, q \in Pins :
        /\ p # q
        /\ state[p] = "Armed" /\ suspended[p] /\ firstEdge[p] = "none"
        /\ ~fault[p]
        /\ state[q] = "Abandoned" /\ fault[q] /\ firstEdge[q] # "none"
        /\ CanInvoke(q)

(***************************************************************************)
(* C14 - exactly-once consumption.  A wait hands at most one outcome to    *)
(* its caller, and exactly one once it is Resolved: success without        *)
(* payload or the backend's error, nothing else.  Before it is Resolved,   *)
(* and when it is Abandoned, nothing was delivered.  A Resolved wait stays *)
(* Resolved with its outcome and an Abandoned wait stays Abandoned, so no  *)
(* wait ends in both.                                                      *)
(***************************************************************************)
ExactlyOnceConsumption ==
    /\ [](\A p \in Pins :
            /\ delivered[p] <= 1
            /\ delivered[p] = 1 <=> state[p] = "Resolved"
            /\ state[p] = "Resolved" => outcome[p] \in {"Ok", "Err"}
            /\ state[p] # "Resolved" => outcome[p] = "none")
    /\ [][\A p \in Pins :
            (state[p] \in Terminal /\ ~NewWait(p)) =>
                /\ state'[p] = state[p]
                /\ outcome'[p] = outcome[p]
                /\ delivered'[p] = delivered[p]]_vars

\* C14's case: one wait was consumed with the error, one outcome delivered,
\* and another was dropped after it was satisfied, nothing delivered.
ExactlyOnceConsumptionWitness ==
    \E p, q \in Pins :
        /\ ResolvedErr(p) /\ delivered[p] = 1
        /\ state[q] = "Abandoned" /\ qual[q] /\ delivered[q] = 0
        /\ outcome[q] = "none"

(***************************************************************************)
(* C15 - coalescing.  An edge wait that saw more than one qualifying       *)
(* transition between its registration and its resume is satisfied once:   *)
(* it is Satisfied with nothing delivered yet, or Resolved with one        *)
(* success outcome, which is the outcome of a single transition, or        *)
(* dropped; at least one qualifying transition did occur.                  *)
(***************************************************************************)
Coalescing ==
    \A p \in Pins :
        (op[p] \in EdgeOps /\ coalesced[p]) =>
            /\ qual[p]
            /\ state[p] \in {"Satisfied", "Resolved", "Abandoned"}
            /\ state[p] = "Satisfied" => delivered[p] = 0 /\ outcome[p] = "none"
            /\ state[p] = "Resolved" => delivered[p] = 1 /\ outcome[p] = "Ok"
            /\ state[p] = "Abandoned" => delivered[p] = 0

\* C15's case: a wait_for_any_edge saw a rising and then a falling edge
\* before its caller, which was suspended, was resumed with one success.
CoalescingWitness ==
    \E p \in Pins :
        /\ op[p] = "wait_for_any_edge" /\ coalesced[p] /\ suspended[p]
        /\ firstEdge[p] = "rising" /\ level[p] = "low"
        /\ ResolvedOk(p) /\ delivered[p] = 1

\* What C16 says of every wait, but for its sentence on edge waits: a wait
\* suspends its caller at most once; while it is Armed and has not done so,
\* the caller that awaits it is suspended and cannot be resumed; a caller
\* is resumed only with an outcome; a level-wait invoked at its requested
\* level, with no transition since, has suspended nobody.
SuspendsAtMostOnce(p) ==
    /\ suspensions[p] <= 1
    /\ suspended[p] <=> suspensions[p] = 1
    /\ (state[p] = "Armed" /\ suspensions[p] = 0) => ENABLED Suspend(p)
    /\ state[p] = "Armed" => ~ENABLED Resume(p)
    /\ state[p] = "Resolved" => outcome[p] # "none"
    /\ (op[p] \in LevelOps /\ firstEdge[p] = "none"
        /\ level[p] = Requested(op[p])) => suspensions[p] = 0

(***************************************************************************)
(* C16 as stated - single suspension: a wait whose condition is not met    *)
(* when it is first driven suspends the caller exactly once and is resumed *)
(* only with an outcome; a level-wait whose pin is already at the          *)
(* requested level suspends zero times; no edge wait completes with zero   *)
(* suspensions.                                                            *)
(***************************************************************************)
SingleSuspensionAsStated ==
    \A p \in Pins :
        /\ SuspendsAtMostOnce(p)
        /\ (op[p] \in EdgeOps /\ state[p] = "Resolved") => suspensions[p] = 1

(***************************************************************************)
(* C16 amended - single suspension: a wait whose condition is not met when *)
(* it is first driven suspends the caller exactly once and is resumed only *)
(* with an outcome; a level-wait whose pin is already at the requested     *)
(* level suspends zero times; an edge wait completes with zero suspensions *)
(* only if a qualifying transition after its registration, or a backend    *)
(* failure, occurred before its caller was first suspended.                *)
(***************************************************************************)
SingleSuspension ==
    \A p \in Pins :
        /\ SuspendsAtMostOnce(p)
        /\ (op[p] \in EdgeOps /\ state[p] = "Resolved"
            /\ suspensions[p] = 0) =>
                \/ outcome[p] = "Ok" /\ qual[p] /\ firstEdge[p] # "none"
                \/ outcome[p] = "Err" /\ fault[p]

\* C16's case: a wait_for_rising_edge whose rising edge came between the
\* invocation and the caller's first await resolved with success without a
\* suspension, while a wait_for_falling_edge suspended its caller once.
SingleSuspensionWitness ==
    \E p, q \in Pins :
        /\ op[p] = "wait_for_rising_edge" /\ ResolvedOk(p)
        /\ suspensions[p] = 0 /\ firstEdge[p] = "rising"
        /\ op[q] = "wait_for_falling_edge" /\ ResolvedOk(q)
        /\ suspensions[q] = 1

\* wait_until_ready_or_timeout has returned on pin p, or panicked.
Finished(p) == result[p] # "none"

\* What C11 says of the two futures and of the handle: while the race is
\* on, the wait is outstanding and nothing was returned; once it is over,
\* a wait that finished first was consumed and the delay dropped, and after
\* a timeout the delay was consumed, the wait dropped, its detection
\* released and the handle free for a new call.
OneConsumedOneAbandoned(p) ==
    /\ Racing(p) => state[p] \in Outstanding /\ ~Finished(p)
    /\ polled[p] => Racing(p)
    /\ Finished(p) =>
            /\ ~Racing(p)
            /\ state[p] = "Resolved" <=> timer[p] = "dropped"
            /\ state[p] = "Abandoned" <=> timer[p] = "consumed"
            /\ state[p] \in Terminal
            /\ result[p] = "false" <=> timer[p] = "consumed"
    /\ result[p] = "false" =>
            /\ outcome[p] = "none" /\ ~armed[p] /\ borrows[p] = 0
            /\ ENABLED wait_until_ready_or_timeout(p)

\* The wait wins when both futures are ready as select_biased! is polled.
WaitWinsTies ==
    \A p \in Pins :
        (Racing(p) /\ ~polled[p] /\ timer[p] = "elapsed"
         /\ state[p] \in {"Satisfied", "Failed"} /\ timer'[p] # timer[p]) =>
            /\ timer'[p] = "dropped"
            /\ state'[p] = "Resolved"
            /\ result'[p] # "false"

(***************************************************************************)
(* C11 as stated - timeout composition: exactly one of the wait and the    *)
(* timer finishes first and is consumed and the other is abandoned; the    *)
(* composition reports 'pin became high' (true) exactly when the wait      *)
(* resolved first, the wait winning ties, and 'timed out' (false)          *)
(* otherwise; after a timeout the handle is usable for a new wait.         *)
(***************************************************************************)
TimeoutCompositionAsStated ==
    /\ [](\A p \in Pins :
            /\ OneConsumedOneAbandoned(p)
            /\ Finished(p) =>
                    /\ result[p] \in {"true", "false"}
                    /\ result[p] = "true" <=> state[p] = "Resolved")
    /\ [][WaitWinsTies]_vars

(***************************************************************************)
(* C11 amended - timeout composition: exactly one of the wait and the      *)
(* timer finishes first and is consumed and the other is abandoned; the    *)
(* composition reports 'pin became high' (true) exactly when the wait      *)
(* resolved first with success, the wait winning ties, panics exactly when *)
(* the wait resolved first with the error, and reports 'timed out' (false) *)
(* exactly when the timer finished first; after a timeout the handle is    *)
(* usable for a new wait.                                                  *)
(***************************************************************************)
TimeoutComposition ==
    /\ [](\A p \in Pins :
            /\ OneConsumedOneAbandoned(p)
            /\ Finished(p) =>
                    /\ result[p] = "true" <=> ResolvedOk(p)
                    /\ result[p] = "panic" <=> ResolvedErr(p)
                    /\ result[p] = "false" <=> state[p] = "Abandoned")
    /\ [][WaitWinsTies]_vars

\* C11's case: one call returned true although its pin is low again, the
\* delay dropped; another returned false after its wait, satisfied by then,
\* was dropped, and its handle is free for a new call.
TimeoutCompositionWitness ==
    \E p, q \in Pins :
        /\ result[p] = "true" /\ level[p] = "low" /\ timer[p] = "dropped"
        /\ ResolvedOk(p)
        /\ result[q] = "false" /\ timer[q] = "consumed"
        /\ state[q] = "Abandoned" /\ qual[q]
        /\ ENABLED wait_until_ready_or_timeout(q)

====
